---- MODULE Spec2Model ----
(***************************************************************************)
(* A model of the MACD strategy repository:                                *)
(*   - EnhancedMACDStrategy (Enhanced_MACD_Strategy.py): the single-asset  *)
(*     pipeline calculate_macd -> generate_signals -> calculate_returns,   *)
(*     the optimizer's objective and the walk-forward driver;              *)
(*   - EnhancedMACDETFStrategy (QuantConnect_Enhanced_MACD_Strategy.py)    *)
(*     and SimplifiedMACDETFStrategy (QuantConnect_Simple_MACD_ETF.py):    *)
(*     the multi-asset signal, risk-management and execution path.         *)
(*                                                                         *)
(* Numbers.  Python floats are modelled by exact rationals <<n, d>> in     *)
(* lowest terms with d > 0; <<0, 0>> is NaN.  An optional value (None or   *)
(* an object) is a sequence of length 0 or 1.                              *)
(***************************************************************************)
EXTENDS Integers, Sequences, FiniteSets, TLC

VARIABLES
    strategy,   \* instance -> EnhancedMACDStrategy object (data, signals, results)
    opt,        \* the last evaluation of an optimizer objective
    wf,         \* one run of walk_forward_analysis
    algo,       \* the deployed multi-asset algorithm object
    metrics,    \* the last call of calculate_metrics: its frame and its result
    run         \* the last call of backtest on the first object

vars == <<strategy, opt, wf, algo, metrics, run>>

----------------------------------------------------------------------------
(* Rational arithmetic                                                     *)

Abs(x) == IF x < 0 THEN -x ELSE x

Min(a, b) == IF a <= b THEN a ELSE b

Max(a, b) == IF a >= b THEN a ELSE b

RECURSIVE GCD(_, _)
GCD(a, b) == IF b = 0 THEN a ELSE GCD(b, a % b)

NaN == <<0, 0>>

IsNaN(x) == x[2] = 0

Norm(n, d) ==
    IF d = 0 THEN NaN
    ELSE LET g == GCD(Abs(n), Abs(d))
             s == IF d < 0 THEN -1 ELSE 1
         IN  <<s * (n \div g), s * (d \div g)>>

Rat(n) == <<n, 1>>

\* numerator of x over the least common denominator of x and y
Over(x, y) == x[1] * (y[2] \div GCD(x[2], y[2]))

RAdd(x, y) == IF IsNaN(x) \/ IsNaN(y) THEN NaN
              ELSE Norm(Over(x, y) + Over(y, x), (x[2] \div GCD(x[2], y[2])) * y[2])

RSub(x, y) == IF IsNaN(x) \/ IsNaN(y) THEN NaN
              ELSE Norm(Over(x, y) - Over(y, x), (x[2] \div GCD(x[2], y[2])) * y[2])

RMul(x, y) == IF IsNaN(x) \/ IsNaN(y) THEN NaN
              ELSE LET g == GCD(Abs(x[1]), y[2])
                       h == GCD(Abs(y[1]), x[2])
                   IN  Norm((x[1] \div g) * (y[1] \div h), (x[2] \div h) * (y[2] \div g))

\* x / y for y # 0
RDiv(x, y) == IF IsNaN(x) \/ IsNaN(y) THEN NaN
              ELSE RMul(x, Norm(y[2], y[1]))

RAbs(x) == IF IsNaN(x) THEN NaN ELSE <<Abs(x[1]), x[2]>>

\* Comparisons with NaN are False, as in IEEE arithmetic.
RLt(x, y) == ~IsNaN(x) /\ ~IsNaN(y) /\ Over(x, y) < Over(y, x)

RGt(x, y) == RLt(y, x)

RLe(x, y) == ~IsNaN(x) /\ ~IsNaN(y) /\ Over(x, y) <= Over(y, x)

RGe(x, y) == RLe(y, x)

None == << >>

Some(x) == <<x>>

----------------------------------------------------------------------------
(* Bounds and input sets of the single-asset pipeline                      *)

\* longest price series the data provider returns
MaxLen == 4

\* close prices the data provider returns
Prices == {1, 4, 5, 6, 9}

\* close prices of the two-run comparison
TwinPrices == {1, 5, 9}

\* (fast_period, slow_period, signal_period) arguments
ParamSets == {<<1, 3, 2>>, <<1, 2, 2>>, <<2, 3, 1>>, <<3, 2, 2>>}

\* the two strategy objects of the two-run comparison
Instances == {1, 2}

RECURSIVE SeqsUpTo(_, _)
SeqsUpTo(S, n) ==
    IF n = 0 THEN {<< >>}
    ELSE LET shorter == SeqsUpTo(S, n - 1)
         IN  shorter \cup {Append(q, x) : q \in {r \in shorter : Len(r) = n - 1}, x \in S}

----------------------------------------------------------------------------
(* EnhancedMACDStrategy: indicator, signals, returns                       *)

\* transaction_cost=0.001, the default of calculate_returns and backtest
TransactionCost == <<1, 1000>>

\* Series.ewm(span=span).mean() with pandas' defaults (adjust=True):
\*   y[t] = (x[t] + w x[t-1] + ... + w^t x[0]) / (1 + w + ... + w^t),
\*   w = 1 - alpha, alpha = 2 / (span + 1).
EwmDecay(span) == Norm(span - 1, span + 1)

RECURSIVE EwmNum(_, _, _)
EwmNum(xs, span, t) ==
    IF t = 1 THEN xs[1]
    ELSE RAdd(xs[t], RMul(EwmDecay(span), EwmNum(xs, span, t - 1)))

RECURSIVE EwmDen(_, _)
EwmDen(span, t) ==
    IF t = 1 THEN Rat(1)
    ELSE RAdd(Rat(1), RMul(EwmDecay(span), EwmDen(span, t - 1)))

EwmMean(xs, span) ==
    [t \in 1..Len(xs) |-> RDiv(EwmNum(xs, span, t), EwmDen(span, t))]

calculate_macd(data, fast_period, slow_period, signal_period) ==
    LET close    == [t \in 1..Len(data) |-> Rat(data[t])]
        ema_fast == EwmMean(close, fast_period)
        ema_slow == EwmMean(close, slow_period)
        macd     == [t \in 1..Len(data) |-> RSub(ema_fast[t], ema_slow[t])]
        signal   == EwmMean(macd, signal_period)
    IN  [Close     |-> data,
         macd      |-> macd,
         signal    |-> signal,
         histogram |-> [t \in 1..Len(data) |-> RSub(macd[t], signal[t])]]

\* One pass of the loop body of generate_signals at row i (Python row i-1).
TriggerStepMissesEquality(frame, trig, i) ==
    IF RGt(frame.macd[i], frame.signal[i]) /\ RLt(frame.macd[i - 1], frame.signal[i - 1])
    THEN [trig EXCEPT ![i] = 1]
    ELSE IF RLt(frame.macd[i], frame.signal[i]) /\ RGt(frame.macd[i - 1], frame.signal[i - 1])
         THEN [trig EXCEPT ![i] = -1]
         ELSE trig

TriggerStepNonStrict(frame, trig, i) ==
    IF RGe(frame.macd[i], frame.signal[i]) /\ RLe(frame.macd[i - 1], frame.signal[i - 1])
    THEN [trig EXCEPT ![i] = 1]
    ELSE IF RLe(frame.macd[i], frame.signal[i]) /\ RGe(frame.macd[i - 1], frame.signal[i - 1])
         THEN [trig EXCEPT ![i] = -1]
         ELSE trig

TriggerStep(frame, trig, i) ==
    IF RGt(frame.macd[i], frame.signal[i]) /\ RLe(frame.macd[i - 1], frame.signal[i - 1])
    THEN [trig EXCEPT ![i] = 1]
    ELSE IF RLt(frame.macd[i], frame.signal[i]) /\ RGe(frame.macd[i - 1], frame.signal[i - 1])
         THEN [trig EXCEPT ![i] = -1]
         ELSE trig

\* for i in range(1, len(signals)): rows 2..Len in 1-based indexing
RECURSIVE TriggerLoop(_, _, _)
TriggerLoop(frame, trig, i) ==
    IF i > Len(frame.Close) THEN trig
    ELSE TriggerLoop(frame, TriggerStep(frame, trig, i), i + 1)

RECURSIVE CumSum(_, _)
CumSum(xs, t) == IF t = 0 THEN 0 ELSE CumSum(xs, t - 1) + xs[t]

ClipUnbounded(x, lo, hi) == x

Clip(x, lo, hi) == IF x < lo THEN lo ELSE IF x > hi THEN hi ELSE x

generate_signals(data, fast_period, slow_period, signal_period) ==
    LET frame   == calculate_macd(data, fast_period, slow_period, signal_period)
        zeros   == [t \in 1..Len(data) |-> 0]
        trigger == TriggerLoop(frame, zeros, 2)
    IN  [Close          |-> frame.Close,
         macd           |-> frame.macd,
         signal         |-> frame.signal,
         histogram      |-> frame.histogram,
         signal_trigger |-> trigger,
         position       |-> [t \in 1..Len(data) |-> Clip(CumSum(trigger, t), -1, 1)]]

\* Series.pct_change(): NaN in the first row
PctChange(xs) ==
    [t \in 1..Len(xs) |->
        IF t = 1 THEN NaN ELSE RDiv(RSub(Rat(xs[t]), Rat(xs[t - 1])), Rat(xs[t - 1]))]

\* Series.diff(): NaN in the first row
Diff(xs) ==
    [t \in 1..Len(xs) |-> IF t = 1 THEN NaN ELSE Rat(xs[t] - xs[t - 1])]

ShiftLead(xs) ==
    [t \in 1..Len(xs) |-> IF t = Len(xs) THEN NaN ELSE Rat(xs[t + 1])]

\* Series.shift(1): NaN in the first row, row t holds the value of row t-1
Shift(xs) ==
    [t \in 1..Len(xs) |-> IF t = 1 THEN NaN ELSE Rat(xs[t - 1])]

\* The cumulative-product columns market_cumulative and strategy_cumulative
\* are left out: nothing modelled here reads them.
calculate_returns(signals, transaction_cost) ==
    LET n                 == Len(signals.Close)
        market_return     == PctChange(signals.Close)
        position_change   == [t \in 1..n |-> RAbs(Diff(signals.position)[t])]
        transaction_costs == [t \in 1..n |-> RMul(position_change[t], transaction_cost)]
        lagged            == Shift(signals.position)
    IN  [Close             |-> signals.Close,
         signal_trigger    |-> signals.signal_trigger,
         position          |-> signals.position,
         market_return     |-> market_return,
         position_change   |-> position_change,
         transaction_costs |-> transaction_costs,
         strategy_return   |->
             [t \in 1..n |-> RSub(RMul(lagged[t], market_return[t]), transaction_costs[t])]]

----------------------------------------------------------------------------
(* EnhancedMACDStrategy.calculate_metrics                                  *)

\* Bound and input values of the frames handed to calculate_metrics alone:
\* up to MaxRows rows, the first with NaN in both return columns as
\* calculate_returns leaves it, the others with returns from ReturnValues.
MaxRows == 4

ReturnValues == {<<-1, 2>>, <<0, 1>>, <<1, 2>>}

ReturnFrame(strategy_return, market_return) ==
    [strategy_return |-> strategy_return, market_return |-> market_return]

RECURSIVE ReturnFrames(_)
ReturnFrames(n) ==
    IF n = 0 THEN {ReturnFrame(<< >>, << >>)}
    ELSE IF n = 1 THEN ReturnFrames(0) \cup {ReturnFrame(<<NaN>>, <<NaN>>)}
    ELSE LET shorter == ReturnFrames(n - 1)
         IN  shorter \cup
             {ReturnFrame(Append(f.strategy_return, x), Append(f.market_return, y)) :
                 f \in {g \in shorter : Len(g.strategy_return) = n - 1},
                 x \in ReturnValues, y \in ReturnValues}

\* Series.dropna()
DropNa(xs) == SelectSeq(xs, LAMBDA x : ~IsNaN(x))

RECURSIVE Sum(_, _)
Sum(xs, t) == IF t = 0 THEN <<0, 1>> ELSE RAdd(Sum(xs, t - 1), xs[t])

Mean(xs) == RDiv(Sum(xs, Len(xs)), Rat(Len(xs)))

\* np.cov(xs, ys)[0, 1], and Series.var() as Cov(xs, xs): the divisor is
\* len - 1, NaN for fewer than two values.
Cov(xs, ys) ==
    IF Len(xs) < 2 THEN NaN
    ELSE LET products == [t \in 1..Len(xs) |->
                             RMul(RSub(xs[t], Mean(xs)), RSub(ys[t], Mean(ys)))]
         IN  RDiv(Sum(products, Len(xs)), Rat(Len(xs) - 1))

Var(xs) == Cov(xs, xs)

\* Series.std() > 0: the standard deviation is the root of the variance.
StdPositive(xs) == RGt(Var(xs), <<0, 1>>)

\* metrics['annual_return'] / metrics['volatility'] if metrics['volatility'] > 0 else 0
\* The quotient is a root of a rational: it is kept as the expression.
SharpeRatio(strategy_returns) ==
    IF StdPositive(strategy_returns) THEN "annual_return / volatility" ELSE "0"

BetaGuardLengthOnly(market_returns) == Len(market_returns) > 0

\* len(market_returns) > 0 and market_returns.std() > 0
BetaGuard(market_returns) ==
    Len(market_returns) > 0 /\ StdPositive(market_returns)

WinRate(strategy_returns) ==
    Norm(Len(SelectSeq(strategy_returns, LAMBDA x : RGt(x, <<0, 1>>))),
         Len(strategy_returns))

\* The exception that leaves calculate_metrics, if any: IndexError from
\* iloc[-1] on a frame without rows, ZeroDivisionError from
\* 252 / len(strategy_returns) when no return is left after dropna.
MetricsRaised(returns) ==
    IF Len(returns.strategy_return) = 0 THEN "IndexError"
    ELSE IF Len(DropNa(returns.strategy_return)) = 0 THEN "ZeroDivisionError"
         ELSE "none"

\* calculate_metrics.  The metrics read from the cumulative columns (total_return, market_return,
\* annual_return, max_drawdown) are roots and products not evaluated here;
\* volatility is kept as its square.
calculate_metrics(returns) ==
    LET strategy_returns == DropNa(returns.strategy_return)
        market_returns   == DropNa(returns.market_return)
    IN  IF MetricsRaised(returns) # "none"
        THEN [raised |-> MetricsRaised(returns)]
        ELSE [raised             |-> "none",
              volatility_squared |-> RMul(Var(strategy_returns), Rat(252)),
              sharpe_ratio       |-> SharpeRatio(strategy_returns),
              win_rate           |-> IF Len(strategy_returns) > 0
                                     THEN WinRate(strategy_returns)
                                     ELSE <<0, 1>>,
              beta               |-> IF BetaGuard(market_returns)
                                     THEN RDiv(Cov(strategy_returns, market_returns),
                                               Var(market_returns))
                                     ELSE <<0, 1>>]

\* The frame a caller holds, before calculate_metrics is called with it.
NoMetrics(returns) == [called |-> FALSE, returns |-> returns]

\* calculate_metrics is called with the frame
CalculateMetrics ==
    /\ ~metrics.called
    /\ metrics' = [called  |-> TRUE,
                   returns |-> metrics.returns,
                   result  |-> calculate_metrics(metrics.returns)]
    /\ UNCHANGED <<strategy, opt, wf, algo, run>>

----------------------------------------------------------------------------
(* The optimizers' objectives                                              *)

\* Scores are extended numbers: inf is -1 for -infinity, 1 for +infinity and
\* 0 for the finite value val.
NegInf == [inf |-> -1, val |-> 0]

PosInf == [inf |-> 1, val |-> 0]

Finite(v) == [inf |-> 0, val |-> v]

ScoreLe(a, b) ==
    \/ a.inf < b.inf
    \/ a.inf = b.inf /\ (a.inf # 0 \/ a.val <= b.val)

\* int(x) of a float: truncation toward zero
Trunc(x) == IF x[1] >= 0 THEN x[1] \div x[2] ELSE -((-x[1]) \div x[2])

\* Points the numerical search may hand to an objective, per coordinate.
FastPoints == {<<0, 1>>, <<1, 2>>, <<5, 1>>, <<12, 1>>, <<39, 2>>, <<20, 1>>}

SlowPoints == {<<0, 1>>, <<20, 1>>, <<41, 2>>, <<26, 1>>, <<50, 1>>}

SignalPoints == {<<1, 2>>, <<5, 1>>, <<9, 1>>, <<15, 1>>}

Candidates == FastPoints \X SlowPoints \X SignalPoints

\* The Sharpe ratio is a real number computed with roots and powers; the
\* values below stand for what calculate_metrics can return.
SharpeValues == {-2, 0, 3}

\* What running the pipeline on a feasible candidate ends in:
\*   "raise": an exception inside generate_signals, calculate_returns or
\*            calculate_metrics;
\*   "empty", "flat": CalculateStrategyReturns returned no returns, or
\*            returns of zero standard deviation (ETF objective only);
\*   <<"sharpe", v>>: the Sharpe ratio v.
PipelineOutcomes == {<<"raise", 0>>} \cup {<<"sharpe", v>> : v \in SharpeValues}

ETFPipelineOutcomes ==
    {<<"empty", 0>>, <<"flat", 0>>} \cup {<<"sharpe", v>> : v \in SharpeValues}

Infeasible(c) == Trunc(c[1]) >= Trunc(c[2]) \/ Trunc(c[1]) < 1 \/ Trunc(c[2]) < 1 \/ Trunc(c[3]) < 1

ExceptPropagates == [score |-> Finite(0), ran |-> TRUE, raised |-> TRUE]

\* except: return np.inf
ExceptReturn == [score |-> PosInf, ran |-> TRUE, raised |-> FALSE]

\* EnhancedMACDStrategy.objective_function: the score returned, whether the
\* pipeline was run, and whether an exception left the function.
objective_function(params, outcome) ==
    LET fast_period   == Trunc(params[1])
        slow_period   == Trunc(params[2])
        signal_period == Trunc(params[3])
    IN  IF fast_period >= slow_period \/ fast_period < 1 \/ signal_period < 1
        THEN [score |-> NegInf, ran |-> FALSE, raised |-> FALSE]
        ELSE IF outcome[1] = "raise"
             THEN ExceptReturn
             ELSE [score |-> Finite(-outcome[2]), ran |-> TRUE, raised |-> FALSE]

\* objective, the closure of EnhancedMACDETFStrategy.OptimizeETFParameters
objective(params, outcome) ==
    LET fast == Trunc(params[1])
        slow == Trunc(params[2])
    IN  IF fast >= slow
        THEN [score |-> Finite(-1000), ran |-> FALSE, raised |-> FALSE]
        ELSE IF outcome[1] \in {"empty", "flat"}
             THEN [score |-> Finite(-1000), ran |-> TRUE, raised |-> FALSE]
             ELSE [score |-> Finite(-outcome[2]), ran |-> TRUE, raised |-> FALSE]

NoEvaluation ==
    [by |-> "none", params |-> <<>>, outcome |-> <<"none", 0>>,
     score |-> Finite(0), ran |-> FALSE, raised |-> FALSE]

\* minimize calls objective_function with a candidate
EvaluateObjective(c, outcome) ==
    /\ opt' = [by     |-> "objective_function",
               params |-> c,
               outcome |-> outcome,
               score  |-> objective_function(c, outcome).score,
               ran    |-> objective_function(c, outcome).ran,
               raised |-> objective_function(c, outcome).raised]
    /\ UNCHANGED <<strategy, wf, algo, metrics, run>>

\* minimize calls the ETF objective with a candidate
EvaluateETFObjective(c, outcome) ==
    /\ opt' = [by     |-> "objective",
               params |-> c,
               outcome |-> outcome,
               score  |-> objective(c, outcome).score,
               ran    |-> objective(c, outcome).ran,
               raised |-> objective(c, outcome).raised]
    /\ UNCHANGED <<strategy, wf, algo, metrics, run>>

----------------------------------------------------------------------------
(* optimize_parameters and walk_forward_analysis                           *)

\* Bounds of the walk-forward runs: the optimization windows tried are
\* 0..MaxWindow and DefaultOptimizationWindow + (0..MaxWindow), the test
\* windows 0..MaxTest, and the series has up to MaxExtra rows more than the
\* optimization window.
MaxWindow == 2

MaxTest == 3

MaxExtra == 7

\* optimization_window=252, the default of optimize_parameters
DefaultOptimizationWindow == 252

OptimizationWindows ==
    (0..MaxWindow) \cup {DefaultOptimizationWindow + d : d \in 0..MaxWindow}

\* initial_guess, also the fallback of optimize_parameters
DefaultParamsSwapped == <<26, 12, 9>>

DefaultParams == <<12, 26, 9>>

\* Points inside bounds = [(5, 20), (20, 50), (5, 15)] at which the search
\* may stop.
SearchResults ==
    {<<<<20, 1>>, <<41, 2>>, <<5, 1>>>>, <<<<17, 2>>, <<30, 1>>, <<15, 1>>>>}

\* A DataFrame cut from the series is modelled by the rows it holds: the
\* rows lo .. hi-1 of the series (0-based), none when lo = hi.
Rows(lo, hi) == [lo |-> lo, hi |-> Max(lo, hi)]

RowCount(frame) == frame.hi - frame.lo

RowSet(frame) == frame.lo .. (frame.hi - 1)

\* frame.iloc[a:b] for a, b >= 0
Iloc(frame, a, b) ==
    Rows(frame.lo + Min(a, RowCount(frame)), frame.lo + Min(b, RowCount(frame)))

\* frame.head(n) for n >= 0
HeadRows(frame, n) == Iloc(frame, 0, n)

\* optimize_parameters on an object whose data is set: the rows handed to
\* objective_function, and the periods returned for the search result
\* (success, x).
optimize_parameters(data, optimization_window, success, x) ==
    [opt_data |-> HeadRows(data, optimization_window),
     params   |-> IF success THEN <<Trunc(x[1]), Trunc(x[2]), Trunc(x[3])>> ELSE DefaultParams]

\* calculate_metrics raises on a frame without a strategy return: IndexError
\* from iloc[-1] on no rows, ZeroDivisionError from 252 / len(strategy_returns)
\* on one row, whose only return is NaN.
CalculateMetricsRaises(frame) == RowCount(frame) <= 1

\* range(0, stop, step): the index after start
RangeNextByOne(start, step) == start + 1

RangeNext(start, step) == start + step

\* range(0, stop, step), step > 0: whether start is produced
InRange(start, stop) == start < stop

NewWalk ==
    [pc                  |-> "new",
     data                |-> None,
     optimization_window |-> 0,
     test_window         |-> 0,
     start_idx           |-> 0,
     blocks              |-> << >>,
     results_list        |-> << >>]

\* self.data is set to a series of n rows
LoadData(n) ==
    /\ wf.pc = "new"
    /\ wf.data = None
    /\ wf' = [wf EXCEPT !.data = Some(Rows(0, n))]
    /\ UNCHANGED <<strategy, opt, algo, metrics, run>>

\* walk_forward_analysis(optimization_window, test_window) up to the first
\* evaluation of the range: returns None without data, raises ValueError
\* for a zero step.
WalkStart(optimization_window, test_window) ==
    /\ wf.pc = "new"
    /\ wf' = [wf EXCEPT
           !.optimization_window = optimization_window,
           !.test_window = test_window,
           !.pc = IF wf.data = None THEN "returned_none"
                  ELSE IF test_window = 0 THEN "raised"
                  ELSE "loop"]
    /\ UNCHANGED <<strategy, opt, algo, metrics, run>>

\* One pass of the loop body.  blocks records the windows of every pass and
\* what the search reported, results_list the entries appended.  The list
\* optimize_parameters returns is never empty, so "if optimal_params:" holds
\* in every pass.
WalkBlock(success, x) ==
    /\ wf.pc = "loop"
    /\ InRange(wf.start_idx,
               RowCount(wf.data[1]) - wf.optimization_window - wf.test_window)
    /\ LET data      == wf.data[1]
           opt_start == wf.start_idx
           opt_end   == wf.start_idx + wf.optimization_window
           opt_data  == Iloc(data, opt_start, opt_end)
           test_start == opt_end
           test_end  == Min(opt_end + wf.test_window, RowCount(data))
           test_data == Iloc(data, test_start, test_end)
           optimized == optimize_parameters(opt_data, DefaultOptimizationWindow, success, x)
           block     == [start_idx |-> wf.start_idx,
                         opt       |-> opt_data,
                         test      |-> test_data,
                         scored    |-> optimized.opt_data,
                         success   |-> success]
       IN  IF CalculateMetricsRaises(test_data)
           THEN wf' = [wf EXCEPT !.blocks = Append(@, block), !.pc = "raised"]
           ELSE wf' = [wf EXCEPT
                    !.blocks = Append(@, block),
                    !.results_list = Append(@,
                        [start_date |-> test_data.lo,
                         end_date   |-> test_data.hi - 1,
                         parameters |-> optimized.params]),
                    !.start_idx = RangeNext(wf.start_idx, wf.test_window)]
    /\ UNCHANGED <<strategy, opt, algo, metrics, run>>

\* The range is exhausted: return pd.DataFrame(results_list)
WalkReturn ==
    /\ wf.pc = "loop"
    /\ ~InRange(wf.start_idx,
                RowCount(wf.data[1]) - wf.optimization_window - wf.test_window)
    /\ wf' = [wf EXCEPT !.pc = "returned"]
    /\ UNCHANGED <<strategy, opt, algo, metrics, run>>

----------------------------------------------------------------------------
(* EnhancedMACDStrategy objects and the steps of backtest                  *)

NoRun == [called |-> FALSE]

\* __init__: no data, no signals, no results.  args records the periods the
\* last generate_signals call was given.
NewStrategy == [data |-> None, signals |-> None, results |-> None, args |-> None]

\* fetch_data: self.data is assigned whatever the provider returned.
FetchData(k, series) ==
    /\ strategy[k].data = None
    /\ strategy' = [strategy EXCEPT ![k].data = Some(series)]
    /\ UNCHANGED <<opt, wf, algo, metrics, run>>

\* backtest: self.signals = self.generate_signals(self.data, ...)
GenerateSignals(k, p) ==
    /\ strategy[k].data # None
    /\ strategy[k].signals = None
    /\ strategy' = [strategy EXCEPT
           ![k].signals = Some(generate_signals(strategy[k].data[1], p[1], p[2], p[3])),
           ![k].args = Some(p)]
    /\ UNCHANGED <<opt, wf, algo, metrics, run>>

\* backtest: self.results = self.calculate_returns(self.signals, transaction_cost)
CalculateReturns(k) ==
    /\ strategy[k].signals # None
    /\ strategy[k].results = None
    /\ strategy' = [strategy EXCEPT
           ![k].results = Some(calculate_returns(strategy[k].signals[1], TransactionCost))]
    /\ UNCHANGED <<opt, wf, algo, metrics, run>>

\* What the data provider does when asked for the history: it raises (None)
\* or returns a series, possibly an empty one.
Providers == {None} \cup {Some(series) : series \in SeqsUpTo(TwinPrices, MaxLen)}

EmptyCheckMissing(data) == FALSE

\* if self.data.empty: raise ValueError
EmptyCheck(data) == Len(data) = 0

\* fetch_data: the object afterwards and the value returned.  An exception
\* of the provider leaves self.data as it was; a series returned is assigned
\* to self.data before it is looked at.
fetch_data(object, provider) ==
    IF provider = None
    THEN [object |-> object, returned |-> FALSE]
    ELSE [object   |-> [object EXCEPT !.data = provider],
          returned |-> ~EmptyCheck(provider[1])]

\* backtest(fast_period, slow_period, signal_period) on the first object.
\* run keeps the object before the call, the inputs, whether fetch_data was
\* called and what it returned, how far the pipeline went and how the call
\* ended: None returned, metrics returned, or an exception of
\* calculate_metrics.  The metrics themselves are not kept.
Backtest(provider, p) ==
    LET object  == strategy[1]
        fetched == IF object.data = None
                   THEN fetch_data(object, provider)
                   ELSE [object |-> object, returned |-> TRUE]
        signals == generate_signals(fetched.object.data[1], p[1], p[2], p[3])
        results == calculate_returns(signals, TransactionCost)
        fetch   == IF object.data # None THEN "not called"
                   ELSE IF fetched.returned THEN "True" ELSE "False"
    IN  IF ~fetched.returned
        THEN /\ strategy' = [strategy EXCEPT ![1] = fetched.object]
             /\ run' = [called |-> TRUE, before |-> object, provider |-> provider,
                         args |-> p, fetch |-> fetch,
                         metrics |-> "not called", returned |-> "None"]
             /\ UNCHANGED <<opt, wf, algo, metrics>>
        ELSE /\ strategy' = [strategy EXCEPT ![1] =
                    [fetched.object EXCEPT !.signals = Some(signals),
                                           !.results = Some(results),
                                           !.args = Some(p)]]
             /\ run' = [called |-> TRUE, before |-> object, provider |-> provider,
                         args |-> p, fetch |-> fetch,
                         metrics |-> "called",
                         returned |-> IF MetricsRaised(results) = "none"
                                      THEN "metrics"
                                      ELSE MetricsRaised(results)]
             /\ UNCHANGED <<opt, wf, algo, metrics>>

----------------------------------------------------------------------------
(* EnhancedMACDETFStrategy                                                 *)

\* Bounds of the multi-asset runs: prices kept per asset, rebalances that
\* reach ExecuteTrades.
MaxHistory == 26

MaxRebalances == 2

\* One of the eight symbols of etf_symbols: no step of an asset reads the
\* state of another asset.
Assets == {"SPY"}

\* Portfolio.TotalPortfolioValue, in thousands; SetCash(100000)
StartingCash == 100

PortfolioValues == {80, 85, 100, 110}

\* macd is the difference of two EMAs of up to 252 prices; its value is an
\* input here.
MacdValues == {<<-1, 1>>, <<0, 1>>, <<1, 1>>}

\* Annualized volatility of the last volatility_window returns: an input.
Volatilities == {<<1, 25>>, <<1, 10>>, <<3, 5>>}

\* (current price, 20-day mean of the prices): an input.
PriceAndMean == {<<<<97, 1>>, <<100, 1>>>>, <<<<100, 1>>, <<100, 1>>>>, <<<<103, 1>>, <<100, 1>>>>}

\* deque(maxlen=252) of price_history and returns
WindowCapacity == 252

max_position_size == <<1, 8>>

max_drawdown == <<3, 20>>

volatility_window == 20

optimization_frequency == 21

min_history_for_optimization == 63

Zero == <<0, 1>>

One == <<1, 1>>

\* Initialize: the per-asset state and the performance tracking.  rebalance
\* records the signals and target weights of the last rebalance.
Initialize ==
    [variant    |-> "enhanced",
     warming_up |-> TRUE,
     etfs       |-> [a \in Assets |->
                        [macd           |-> None,
                         signal_line    |-> None,
                         position       |-> Zero,
                         last_signal    |-> Zero,
                         optimal_params |-> <<12, 26, 9>>,
                         price_history  |-> 0,
                         returns        |-> 0,
                         bars           |-> 0,
                         price_entries  |-> << >>,
                         return_entries |-> << >>,
                         last_optimization |-> 0]],
     time       |-> 0,
     optimize   |-> [a \in Assets |-> None],
     peak_portfolio_value |-> StartingCash,
     portfolio_value |-> None,
     drawdown   |-> Zero,
     filter_call |-> None,
     rebalances |-> 0,
     rebalance  |-> None]

\* UpdateMACDIndicators: with slow_period prices in the window the two EMAs
\* exist; macd_value is their difference.
UpdateMACDIndicators(etf_data, macd_value) ==
    IF etf_data.price_history >= etf_data.optimal_params[2]
    THEN [etf_data EXCEPT
             !.macd = Some(macd_value),
             !.signal_line =
                 Some(RAdd(RMul(macd_value, <<1, 10>>),
                           RMul(IF etf_data.signal_line = None THEN Zero
                                ELSE etf_data.signal_line[1], <<9, 10>>)))]
    ELSE etf_data

DequeAppendUnbounded(window, x) == Append(window, x)

\* deque(maxlen=252).append(x): a full deque drops its oldest entry
DequeAppend(window, x) ==
    IF Len(window) < WindowCapacity
    THEN Append(window, x)
    ELSE Append(Tail(window), x)

\* The body of OnData's loop for one asset that has a bar: append the price,
\* append a return once two prices are held, update the indicators.
\* price_history and returns keep the lengths of the two deques,
\* price_entries and return_entries their contents, where the price and the
\* return of the asset's n-th bar are both written n; bars counts the bars.
OnDataAsset(etf_data, macd_value) ==
    LET bar      == etf_data.bars + 1
        appended == [etf_data EXCEPT
                        !.bars = bar,
                        !.price_entries = DequeAppend(@, bar),
                        !.price_history = Min(@ + 1, WindowCapacity)]
        returned == IF appended.price_history > 1
                    THEN [appended EXCEPT
                             !.return_entries = DequeAppend(@, bar),
                             !.returns = Min(@ + 1, WindowCapacity)]
                    ELSE appended
    IN  UpdateMACDIndicators(returned, macd_value)

NewPeakStale(peak_portfolio_value, current_value) == peak_portfolio_value

\* if current_value > self.peak_portfolio_value:
\*     self.peak_portfolio_value = current_value
NewPeak(peak_portfolio_value, current_value) ==
    IF current_value > peak_portfolio_value
    THEN current_value ELSE peak_portfolio_value

\* UpdatePortfolioMetrics: peak and drawdown.  portfolio_value is the value
\* the call read (kept as previous_portfolio_value by the enhanced
\* strategy).  The record of the last rebalance describes the step that has
\* just run: any later step drops it.
UpdatePortfolioMetrics(a, current_value) ==
    LET peak == NewPeak(a.peak_portfolio_value, current_value)
    IN  [a EXCEPT
            !.peak_portfolio_value = peak,
            !.portfolio_value = Some(current_value),
            !.drawdown = Norm(peak - current_value, peak),
            !.rebalance = None]

ApplyAdditionalFiltersDoubling(etf_data, signal, volatility, price_mean) ==
    IF etf_data.returns >= volatility_window /\ RGt(volatility, <<3, 10>>)
    THEN RMul(signal, <<2, 1>>) ELSE signal

\* ApplyAdditionalFilters: volatility dampening, then the momentum filter.
ApplyAdditionalFilters(etf_data, signal, volatility, price_mean) ==
    LET damped == IF /\ etf_data.returns >= volatility_window
                     /\ RGt(volatility, <<3, 10>>)
                  THEN RMul(signal, <<1, 2>>) ELSE signal
        current_price == price_mean[1]
        ma_20 == price_mean[2]
    IN  IF etf_data.price_history >= 20
        THEN IF RGt(damped, Zero) /\ RLt(current_price, RMul(ma_20, <<98, 100>>))
             THEN Zero
             ELSE IF RLt(damped, Zero) /\ RGt(current_price, RMul(ma_20, <<102, 100>>))
                  THEN Zero
                  ELSE damped
        ELSE damped

\* The signals ApplyAdditionalFilters is given: +1, -1 or the position held.
FilterSignals == {<<-1, 1>>, <<-1, 8>>, <<0, 1>>, <<1, 8>>, <<1, 1>>}

\* A call of ApplyAdditionalFilters on its own; filter_call keeps the
\* arguments and the value returned.
FilterCall(s, signal, volatility, price_mean) ==
    /\ algo.variant = "enhanced"
    /\ algo.filter_call = None
    /\ algo' = [algo EXCEPT !.filter_call =
           Some([asset      |-> s,
                 signal     |-> signal,
                 volatility |-> volatility,
                 price      |-> price_mean[1],
                 mean       |-> price_mean[2],
                 rsi        |-> 50,
                 returned   |-> ApplyAdditionalFilters(algo.etfs[s], signal,
                                                       volatility, price_mean)])]
    /\ UNCHANGED <<strategy, opt, wf, metrics, run>>

\* GenerateSignal: the signal returned; last_signal is set to it unless the
\* indicators are missing.
GenerateSignal(etf_data, volatility, price_mean) ==
    IF etf_data.macd = None \/ etf_data.signal_line = None
    THEN Zero
    ELSE LET macd == etf_data.macd[1]
             signal_line == etf_data.signal_line[1]
             last_signal == etf_data.last_signal
             raw == IF RGt(macd, signal_line) /\ RLe(last_signal, Zero) THEN One
                    ELSE IF RLt(macd, signal_line) /\ RGe(last_signal, Zero)
                         THEN <<-1, 1>>
                         ELSE etf_data.position
         IN  ApplyAdditionalFilters(etf_data, raw, volatility, price_mean)

HasIndicators(etf_data) == etf_data.macd # None /\ etf_data.signal_line # None

\* CalculatePositionSize: inverse volatility weighting, capped
CalculatePositionSize(etf_data, volatility) ==
    IF etf_data.returns < volatility_window
    THEN max_position_size
    ELSE LET base_vol == <<3, 20>>
             floored == IF RGe(volatility, <<1, 20>>) THEN volatility ELSE <<1, 20>>
             ratio == RDiv(base_vol, floored)
             vol_adjustment == IF RLe(ratio, <<2, 1>>) THEN ratio ELSE <<2, 1>>
             position_size == RMul(max_position_size, vol_adjustment)
         IN  IF RLe(position_size, max_position_size)
             THEN position_size ELSE max_position_size

BreakerTargetFlat(signal) == Zero

\* The drawdown branch of ApplyRiskManagement, for one signal
BreakerTarget(signal) == IF RGt(signal, Zero) THEN Zero ELSE signal

\* ApplyRiskManagement of EnhancedMACDETFStrategy
ApplyRiskManagement(a, signals, volatility) ==
    IF RGt(a.drawdown, max_drawdown)
    THEN [s \in Assets |-> BreakerTarget(signals[s])]
    ELSE [s \in Assets |->
             IF signals[s] # Zero
             THEN RMul(signals[s], CalculatePositionSize(a.etfs[s], volatility[s]))
             ELSE Zero]

\* What happens to an order past the threshold test: "none" when no order
\* is placed (the security is unknown, its price is not positive or the
\* quantity is zero), "submitted" when MarketOrder returns a ticket whose
\* status is not Filled, "filled" when the ticket reports Filled.
OrderOutcomes == {"none", "submitted", "filled"}

\* if abs(target_weight - current_weight) > 0.01
ExceedsThreshold(target_weight, current_weight) ==
    RGt(RAbs(RSub(target_weight, current_weight)), <<1, 100>>)

\* Whether ExecuteTrades calls MarketOrder for the asset; the current weight
\* is the stored position.
OrderSent(etf_data, target_weight, order) ==
    ExceedsThreshold(target_weight, etf_data.position) /\ order # "none"

\* ExecuteTrades for one asset: the asset afterwards.
ExecuteTrade(etf_data, target_weight, order) ==
    IF OrderSent(etf_data, target_weight, order) /\ order = "filled"
    THEN [etf_data EXCEPT !.position = target_weight]
    ELSE etf_data

\* The engine ends the warm-up period.
FinishWarmUp ==
    /\ algo.warming_up
    /\ algo' = [algo EXCEPT !.warming_up = FALSE]
    /\ UNCHANGED <<strategy, opt, wf, metrics, run>>

\* OnData: present are the assets with a bar, macd_value their new MACD
\* values, current_value the portfolio value.
OnData(present, macd_value, current_value) ==
    /\ algo.variant = "enhanced"
    /\ ~algo.warming_up
    /\ algo' = UpdatePortfolioMetrics(
           [algo EXCEPT !.etfs =
               [s \in Assets |->
                   IF s \in present THEN OnDataAsset(algo.etfs[s], macd_value[s])
                   ELSE algo.etfs[s]]],
           current_value)
    /\ UNCHANGED <<strategy, opt, wf, metrics, run>>

\* RebalancePortfolio: GenerateSignal for every asset, ApplyRiskManagement,
\* ExecuteTrades.
RebalancePortfolio(volatility, price_mean, order) ==
    /\ algo.variant = "enhanced"
    /\ ~algo.warming_up
    /\ algo.rebalances < MaxRebalances
    /\ LET signals == [s \in Assets |->
                          GenerateSignal(algo.etfs[s], volatility[s], price_mean[s])]
           signalled == [algo EXCEPT !.etfs =
                            [s \in Assets |->
                                IF HasIndicators(algo.etfs[s])
                                THEN [algo.etfs[s] EXCEPT !.last_signal = signals[s]]
                                ELSE algo.etfs[s]]]
           filtered_signals == ApplyRiskManagement(signalled, signals, volatility)
       IN  algo' = [signalled EXCEPT
               !.etfs = [s \in Assets |->
                            ExecuteTrade(signalled.etfs[s], filtered_signals[s], order[s])],
               !.rebalances = @ + 1,
               !.rebalance = Some([signals  |-> signals,
                                   filtered |-> filtered_signals,
                                   drawdown |-> algo.drawdown,
                                   before   |-> algo.etfs,
                                   current_weight |->
                                       [s \in Assets |-> signalled.etfs[s].position],
                                   order    |-> order,
                                   sent     |->
                                       [s \in Assets |->
                                           OrderSent(signalled.etfs[s],
                                                     filtered_signals[s], order[s])]])]
    /\ UNCHANGED <<strategy, opt, wf, metrics, run>>

\* Points inside bounds = [(8, 20), (20, 40), (6, 15)] at which the search of
\* OptimizeETFParameters may stop.
ETFSearchResults ==
    {<<<<8, 1>>, <<20, 1>>, <<6, 1>>>>, <<<<20, 1>>, <<41, 2>>, <<9, 1>>>>}

\* OptimizeETFParameters, called with enough history: the truncated stop
\* point when the search reports success, None when it does not or raises.
OptimizeETFParameters(success, x) ==
    IF success THEN Some(<<Trunc(x[1]), Trunc(x[2]), Trunc(x[3])>>) ELSE None

OptimizationDueAfterFrequency(etf_data, time) ==
    time - etf_data.last_optimization >= optimization_frequency

\* len(price_history) >= min_history_for_optimization and
\* (Time - last_optimization).days >= optimization_frequency
OptimizationDue(etf_data, time) ==
    /\ etf_data.price_history >= min_history_for_optimization
    /\ time - etf_data.last_optimization >= optimization_frequency

\* The clock of the engine advances by d days.
AdvanceClock(d) ==
    /\ algo.variant = "enhanced"
    /\ algo' = [algo EXCEPT !.time = @ + d]
    /\ UNCHANGED <<strategy, opt, wf, metrics, run>>

\* OptimizeParameters, with what the search does for every asset it is run
\* for.  optimize keeps, per asset, whether OptimizeETFParameters was called
\* in the last call (None if not) and what it returned.
OptimizeParameters(success, x) ==
    /\ algo.variant = "enhanced"
    /\ LET called == [s \in Assets |->
                         ~algo.warming_up /\ OptimizationDue(algo.etfs[s], algo.time)]
           optimal_params == [s \in Assets |-> OptimizeETFParameters(success[s], x[s])]
       IN  algo' = [algo EXCEPT
               !.etfs = [s \in Assets |->
                            IF called[s] /\ optimal_params[s] # None
                            THEN [algo.etfs[s] EXCEPT
                                     !.optimal_params = optimal_params[s][1],
                                     !.last_optimization = algo.time]
                            ELSE algo.etfs[s]],
               !.optimize = [s \in Assets |->
                                IF called[s] THEN Some(optimal_params[s]) ELSE None]]
    /\ UNCHANGED <<strategy, opt, wf, metrics, run>>

----------------------------------------------------------------------------
(* SimplifiedMACDETFStrategy                                               *)

rebalance_frequency == 5

\* What the library indicators and the security report at a rebalance:
\* MACD line, signal line and histogram (the library's histogram is the MACD
\* line minus the signal line), the price, the 20-day SMA and the RSI.
Readings ==
    {[macd_line |-> 1,  signal_line |-> 0, histogram |-> 1,  price |-> 100, sma_20 |-> 100, rsi |-> 50],
     [macd_line |-> -1, signal_line |-> 0, histogram |-> -1, price |-> 100, sma_20 |-> 100, rsi |-> 50],
     [macd_line |-> 0,  signal_line |-> 0, histogram |-> 0,  price |-> 100, sma_20 |-> 100, rsi |-> 50],
     [macd_line |-> 1,  signal_line |-> 0, histogram |-> 1,  price |-> 97,  sma_20 |-> 100, rsi |-> 50],
     [macd_line |-> -1, signal_line |-> 0, histogram |-> -1, price |-> 103, sma_20 |-> 100, rsi |-> 50],
     [macd_line |-> 1,  signal_line |-> 0, histogram |-> 1,  price |-> 100, sma_20 |-> 100, rsi |-> 75],
     [macd_line |-> -1, signal_line |-> 0, histogram |-> -1, price |-> 100, sma_20 |-> 100, rsi |-> 25]}

\* Portfolio[symbol].HoldingsValue / TotalPortfolioValue: an input.
HoldingWeights == {<<0, 1>>, <<1, 50>>, <<1, 8>>}

\* Initialize of SimplifiedMACDETFStrategy.  ready tells whether the three
\* library indicators of the asset report IsReady; days is
\* (Time - last_rebalance).days, counted up to rebalance_frequency.
SimpleInitialize ==
    [variant    |-> "simplified",
     warming_up |-> TRUE,
     etfs       |-> [a \in Assets |->
                        [ready       |-> FALSE,
                         position    |-> Zero,
                         last_signal |-> Zero,
                         returns     |-> 0,
                         prices      |-> 0]],
     peak_portfolio_value |-> StartingCash,
     portfolio_value |-> None,
     drawdown   |-> Zero,
     filter_call |-> None,
     days       |-> 0,
     rebalances |-> 0,
     rebalance  |-> None]

\* The body of OnData's loop for one asset that has a bar.
SimpleOnDataAsset(etf_data) ==
    LET added == [etf_data EXCEPT !.prices = Min(@ + 1, WindowCapacity)]
    IN  IF added.prices > 1
        THEN [added EXCEPT !.returns = Min(@ + 1, WindowCapacity)]
        ELSE added

\* ApplyFilters: trend filter, RSI filter, volatility filter.
ApplyFilters(etf_data, signal, reading, volatility) ==
    LET trend == IF signal > 0 /\ reading.price * 100 < reading.sma_20 * 98 THEN 0
                 ELSE IF signal < 0 /\ reading.price * 100 > reading.sma_20 * 102 THEN 0
                      ELSE signal
        rsi == IF trend > 0 /\ reading.rsi > 70 THEN 0
               ELSE IF trend < 0 /\ reading.rsi < 30 THEN 0
                    ELSE trend
    IN  IF etf_data.returns >= volatility_window /\ RGt(volatility, <<7, 20>>)
        THEN RMul(Rat(rsi), <<1, 2>>)
        ELSE Rat(rsi)

\* A call of ApplyFilters on its own, on an asset whose indicators are
\* ready.
SimpleFilterCall(s, signal, reading, volatility) ==
    /\ algo.variant = "simplified"
    /\ algo.etfs[s].ready
    /\ algo.filter_call = None
    /\ algo' = [algo EXCEPT !.filter_call =
           Some([asset      |-> s,
                 signal     |-> Rat(signal),
                 volatility |-> volatility,
                 price      |-> Rat(reading.price),
                 mean       |-> Rat(reading.sma_20),
                 rsi        |-> reading.rsi,
                 returned   |-> ApplyFilters(algo.etfs[s], signal, reading,
                                             volatility)])]
    /\ UNCHANGED <<strategy, opt, wf, metrics, run>>

\* GenerateSignal of SimplifiedMACDETFStrategy
SimpleGenerateSignal(etf_data, reading, volatility) ==
    IF ~etf_data.ready
    THEN Zero
    ELSE LET signal == IF reading.macd_line > reading.signal_line /\ reading.histogram > 0
                       THEN 1
                       ELSE IF reading.macd_line < reading.signal_line /\ reading.histogram < 0
                            THEN -1
                            ELSE 0
         IN  ApplyFilters(etf_data, signal, reading, volatility)

\* AdjustForVolatility
AdjustForVolatility(etf_data, base_size, volatility) ==
    IF etf_data.returns < volatility_window
    THEN base_size
    ELSE LET base_vol == <<3, 20>>
             floored == IF RGe(volatility, <<1, 20>>) THEN volatility ELSE <<1, 20>>
             ratio == RDiv(base_vol, floored)
             vol_adjustment == IF RLe(ratio, <<2, 1>>) THEN ratio ELSE <<2, 1>>
             adjusted_size == RMul(base_size, vol_adjustment)
         IN  IF RLe(adjusted_size, max_position_size)
             THEN adjusted_size ELSE max_position_size

\* sum(abs(s) for s in signals.values() if s != 0)
RECURSIVE TotalSignals(_, _)
TotalSignals(signals, S) ==
    IF S = {} THEN Zero
    ELSE LET s == CHOOSE x \in S : TRUE
         IN  RAdd(RAbs(signals[s]), TotalSignals(signals, S \ {s}))

\* ApplyRiskManagement of SimplifiedMACDETFStrategy
SimpleApplyRiskManagement(a, signals, volatility) ==
    IF RGt(a.drawdown, max_drawdown)
    THEN [s \in Assets |-> BreakerTarget(signals[s])]
    ELSE IF TotalSignals(signals, Assets) = Zero
         THEN [s \in Assets |-> Zero]
         ELSE [s \in Assets |->
                  IF signals[s] # Zero
                  THEN RMul(signals[s],
                            AdjustForVolatility(a.etfs[s], max_position_size, volatility[s]))
                  ELSE Zero]

SimpleExceedsThresholdInclusive(target_weight, current_weight) ==
    RGe(RAbs(RSub(target_weight, current_weight)), <<2, 100>>)

\* if abs(weight_difference) > 0.02
SimpleExceedsThreshold(target_weight, current_weight) ==
    RGt(RAbs(RSub(target_weight, current_weight)), <<2, 100>>)

\* Whether ExecuteTrades calls MarketOrder for the asset: current_weight is
\* the weight the portfolio holds, order "none" a quantity of zero.
SimpleOrderSent(target_weight, current_weight, order) ==
    SimpleExceedsThreshold(target_weight, current_weight) /\ order # "none"

\* ExecuteTrades for one asset: the asset afterwards.
SimpleExecuteTrade(etf_data, target_weight, current_weight, order) ==
    IF SimpleOrderSent(target_weight, current_weight, order) /\ order = "filled"
    THEN [etf_data EXCEPT !.position = target_weight]
    ELSE etf_data

\* The library indicators of an asset become ready.
IndicatorsReady(s) ==
    /\ algo.variant = "simplified"
    /\ ~algo.etfs[s].ready
    /\ algo' = [algo EXCEPT !.etfs[s].ready = TRUE, !.rebalance = None]
    /\ UNCHANGED <<strategy, opt, wf, metrics, run>>

\* The clock of the engine advances by d days.
AdvanceTime(d) ==
    /\ algo.variant = "simplified"
    /\ algo.days < rebalance_frequency
    /\ algo' = [algo EXCEPT !.days = Min(@ + d, rebalance_frequency),
                             !.rebalance = None]
    /\ UNCHANGED <<strategy, opt, wf, metrics, run>>

\* OnData of SimplifiedMACDETFStrategy
SimpleOnData(present, current_value) ==
    /\ algo.variant = "simplified"
    /\ ~algo.warming_up
    /\ algo' = UpdatePortfolioMetrics(
           [algo EXCEPT !.etfs =
               [s \in Assets |->
                   IF s \in present THEN SimpleOnDataAsset(algo.etfs[s])
                   ELSE algo.etfs[s]]],
           current_value)
    /\ UNCHANGED <<strategy, opt, wf, metrics, run>>

\* RebalancePortfolio of SimplifiedMACDETFStrategy, past its two early
\* returns.
SimpleRebalancePortfolio(reading, volatility, current_weight, order) ==
    /\ algo.variant = "simplified"
    /\ ~algo.warming_up
    /\ ~(algo.days < rebalance_frequency)
    /\ algo.rebalances < MaxRebalances
    /\ LET signals == [s \in Assets |->
                          SimpleGenerateSignal(algo.etfs[s], reading[s], volatility[s])]
           filtered_signals == SimpleApplyRiskManagement(algo, signals, volatility)
       IN  algo' = [algo EXCEPT
               !.etfs = [s \in Assets |->
                            SimpleExecuteTrade(algo.etfs[s], filtered_signals[s],
                                               current_weight[s], order[s])],
               !.days = 0,
               !.rebalances = @ + 1,
               !.rebalance = Some([signals  |-> signals,
                                   filtered |-> filtered_signals,
                                   drawdown |-> algo.drawdown,
                                   before   |-> algo.etfs,
                                   current_weight |-> current_weight,
                                   order    |-> order,
                                   sent     |->
                                       [s \in Assets |->
                                           SimpleOrderSent(filtered_signals[s],
                                                           current_weight[s], order[s])]])]
    /\ UNCHANGED <<strategy, opt, wf, metrics, run>>

----------------------------------------------------------------------------
(* Specifications                                                          *)

\* The state after construction of every object.
Init ==
    /\ strategy = [k \in Instances |-> NewStrategy]
    /\ opt = NoEvaluation
    /\ wf = NewWalk
    /\ metrics = NoMetrics(ReturnFrame(<< >>, << >>))
    /\ run = NoRun
    /\ algo = Initialize

\* The same, with either of the two multi-asset algorithms.
InitETF ==
    /\ strategy = [k \in Instances |-> NewStrategy]
    /\ opt = NoEvaluation
    /\ wf = NewWalk
    /\ metrics = NoMetrics(ReturnFrame(<< >>, << >>))
    /\ run = NoRun
    /\ algo \in {Initialize, SimpleInitialize}

\* The same, with a frame of returns at hand.
InitMetrics ==
    /\ strategy = [k \in Instances |-> NewStrategy]
    /\ opt = NoEvaluation
    /\ wf = NewWalk
    /\ algo = Initialize
    /\ metrics \in {NoMetrics(returns) : returns \in ReturnFrames(MaxRows)}
    /\ run = NoRun

\* Calls of backtest on one object; the provider is asked only while the
\* object holds no data.
NextBacktest ==
    \E provider \in (IF strategy[1].data = None THEN Providers ELSE {None}),
       p \in ParamSets :
        Backtest(provider, p)

SpecBacktest == Init /\ [][NextBacktest]_vars

NextMetrics == CalculateMetrics

SpecMetrics == InitMetrics /\ [][NextMetrics]_vars

\* generate_signals on series long enough for two crossings in the same
\* direction: the object holds a series of up to MaxSteps rows.
MaxSteps == 5

InitSignals ==
    /\ strategy \in {[k \in Instances |->
                        IF k = 1 THEN [NewStrategy EXCEPT !.data = Some(series)]
                        ELSE NewStrategy] : series \in SeqsUpTo(Prices, MaxSteps)}
    /\ opt = NoEvaluation
    /\ wf = NewWalk
    /\ algo = Initialize
    /\ metrics = NoMetrics(ReturnFrame(<< >>, << >>))
    /\ run = NoRun

NextSignals == \E p \in ParamSets : GenerateSignals(1, p)

SpecSignals == InitSignals /\ [][NextSignals]_vars

NextPipeline ==
    \/ \E series \in SeqsUpTo(Prices, MaxLen) : FetchData(1, series)
    \/ \E p \in ParamSets : GenerateSignals(1, p)
    \/ CalculateReturns(1)

SpecPipeline == Init /\ [][NextPipeline]_vars

\* Two runs over price series that differ in one row: the second object is
\* given the first one's series with the close of one row replaced, and the
\* same periods.
NextTwin ==
    \/ \E series \in SeqsUpTo(TwinPrices, MaxLen) : FetchData(1, series)
    \/ \E p \in ParamSets : GenerateSignals(1, p)
    \/ CalculateReturns(1)
    \/ /\ strategy[1].data # None
       /\ \E k \in 1..Len(strategy[1].data[1]), q \in TwinPrices :
              FetchData(2, [strategy[1].data[1] EXCEPT ![k] = q])
    \/ /\ strategy[1].args # None
       /\ GenerateSignals(2, strategy[1].args[1])
    \/ CalculateReturns(2)

SpecTwin == Init /\ [][NextTwin]_vars


NextObjective ==
    \/ \E c \in Candidates, o \in PipelineOutcomes : EvaluateObjective(c, o)
    \/ \E c \in Candidates, o \in ETFPipelineOutcomes : EvaluateETFObjective(c, o)

SpecObjective == Init /\ [][NextObjective]_vars

NextWalk ==
    \/ \E w \in OptimizationWindows, r \in 0..MaxExtra : LoadData(w + r)
    \/ \E w \in OptimizationWindows, t \in 0..MaxTest :
           /\ wf.data # None => RowCount(wf.data[1]) <= w + MaxExtra
           /\ WalkStart(w, t)
    \/ \E success \in BOOLEAN, x \in SearchResults : WalkBlock(success, x)
    \/ WalkReturn

SpecWalk == Init /\ [][NextWalk]_vars

NextETF ==
    \/ FinishWarmUp
    \/ /\ algo.variant = "enhanced"
       /\ \E present \in SUBSET {s \in Assets : algo.etfs[s].price_history < MaxHistory},
             current_value \in PortfolioValues :
           \E macd_value \in [present -> MacdValues] :
               OnData(present, macd_value, current_value)
    \/ \E volatility \in [Assets -> Volatilities],
          price_mean \in [Assets -> PriceAndMean],
          order \in [Assets -> OrderOutcomes] :
           RebalancePortfolio(volatility, price_mean, order)
    \/ \E s \in Assets : IndicatorsReady(s)
    \/ \E d \in 1..rebalance_frequency : AdvanceTime(d)
    \/ /\ algo.variant = "simplified"
       /\ \E present \in SUBSET {s \in Assets : algo.etfs[s].prices < MaxHistory},
             current_value \in PortfolioValues :
           SimpleOnData(present, current_value)
    \/ \E reading \in [Assets -> Readings],
          volatility \in [Assets -> Volatilities],
          current_weight \in [Assets -> HoldingWeights],
          order \in [Assets -> OrderOutcomes] :
           SimpleRebalancePortfolio(reading, volatility, current_weight, order)

SpecETF == InitETF /\ [][NextETF]_vars

\* A long run of bars for the enhanced strategy, past the capacity of its
\* rolling windows, with rebalances between the bars.
MaxBars == 254

NextWindows ==
    \/ FinishWarmUp
    \/ \E present \in SUBSET {s \in Assets : algo.etfs[s].bars < MaxBars} :
           OnData(present, [s \in present |-> Zero], StartingCash)
    \/ RebalancePortfolio([s \in Assets |-> <<1, 10>>],
                          [s \in Assets |-> <<<<100, 1>>, <<100, 1>>>>],
                          [s \in Assets |-> "filled"])

SpecWindows == Init /\ [][NextWindows]_vars

\* Bars, days and calls of OptimizeParameters for the enhanced strategy, up to
\* MaxOptBars bars and MaxDays days, with rebalances in between.  The first
\* MACD value of an asset is 1, above its signal line; every later one lies
\* on the signal line.
MaxOptBars == 64

MaxDays == 42

NextOptimize ==
    \/ FinishWarmUp
    \/ \E present \in SUBSET {s \in Assets : algo.etfs[s].bars < MaxOptBars} :
           OnData(present,
                  [s \in present |->
                      IF algo.etfs[s].signal_line = None THEN One
                      ELSE algo.etfs[s].signal_line[1]],
                  StartingCash)
    \/ \E d \in {optimization_frequency - 1, optimization_frequency} :
           /\ algo.time + d <= MaxDays
           /\ AdvanceClock(d)
    \/ \E success \in [Assets -> BOOLEAN], x \in [Assets -> ETFSearchResults] :
           OptimizeParameters(success, x)
    \/ RebalancePortfolio([s \in Assets |-> <<1, 10>>],
                          [s \in Assets |-> <<<<100, 1>>, <<100, 1>>>>],
                          [s \in Assets |-> "filled"])

SpecOptimize == Init /\ [][NextOptimize]_vars

\* The confirmation filters called on their own, on an asset of either
\* algorithm that has received up to MaxHistory bars.
NextFilters ==
    \/ FinishWarmUp
    \/ /\ algo.variant = "enhanced"
       /\ algo.filter_call = None
       /\ \A s \in Assets : algo.etfs[s].price_history < MaxHistory
       /\ OnData(Assets, [s \in Assets |-> Zero], StartingCash)
    \/ /\ algo.filter_call = None
       /\ \E s \in Assets : IndicatorsReady(s)
    \/ /\ algo.variant = "simplified"
       /\ algo.filter_call = None
       /\ \A s \in Assets : algo.etfs[s].prices < MaxHistory
       /\ SimpleOnData(Assets, StartingCash)
    \/ \E s \in Assets, signal \in FilterSignals, volatility \in Volatilities,
          price_mean \in PriceAndMean :
           FilterCall(s, signal, volatility, price_mean)
    \/ \E s \in Assets, signal \in {-1, 0, 1}, reading \in Readings,
          volatility \in Volatilities :
           SimpleFilterCall(s, signal, reading, volatility)

SpecFilters == InitETF /\ [][NextFilters]_vars

----------------------------------------------------------------------------
(* Claims about the single-asset pipeline                                  *)

HasSignals(k) == strategy[k].signals # None

HasResults(k) == strategy[k].results # None

SignalsOf(k) == strategy[k].signals[1]

ResultsOf(k) == strategy[k].results[1]

\* C1: every value of the position series produced by generate_signals
\* lies in [-1, +1], whatever triggers occurred.
C1_PositionBounded ==
    \A k \in Instances :
        HasSignals(k) =>
            \A t \in 1..Len(SignalsOf(k).position) :
                SignalsOf(k).position[t] \in {-1, 0, 1}

\* C1 witness: the running sum of triggers left [-1, +1] and the position
\* stayed on the bound.
C1_Witness ==
    \E k \in Instances :
        /\ HasSignals(k)
        /\ \E t \in 1..Len(SignalsOf(k).position) :
               /\ Abs(CumSum(SignalsOf(k).signal_trigger, t)) >= 2
               /\ Abs(SignalsOf(k).position[t]) = 1

Bullish(f, t) == RGt(f.macd[t], f.signal[t]) /\ RLe(f.macd[t - 1], f.signal[t - 1])

Bearish(f, t) == RLt(f.macd[t], f.signal[t]) /\ RGe(f.macd[t - 1], f.signal[t - 1])

\* C10: the trigger of the first row is 0; at every later row it is +1
\* exactly when macd crossed above signal, -1 exactly when it crossed below,
\* 0 otherwise; the two crossings never coincide.
C10_CrossoverDetection ==
    \A k \in Instances :
        HasSignals(k) =>
            LET f == SignalsOf(k)
            IN  \A t \in 1..Len(f.signal_trigger) :
                    IF t = 1 THEN f.signal_trigger[t] = 0
                    ELSE /\ (f.signal_trigger[t] = 1) <=> Bullish(f, t)
                         /\ (f.signal_trigger[t] = -1) <=> Bearish(f, t)
                         /\ f.signal_trigger[t] \in {-1, 0, 1}
                         /\ ~(Bullish(f, t) /\ Bearish(f, t))

\* C10 witness: one series with a bullish trigger that starts from equality
\* of macd and signal, and a bearish trigger later.
C10_Witness ==
    \E k \in Instances :
        /\ HasSignals(k)
        /\ LET f == SignalsOf(k)
           IN  \E t, u \in 2..Len(f.signal_trigger) :
                   /\ f.signal_trigger[t] = 1
                   /\ f.macd[t - 1] = f.signal[t - 1]
                   /\ f.signal_trigger[u] = -1

\* position[t-1] * marketReturn[t] - transactionCost * |position[t] - position[t-1]|
LaggedReturn(r, t) ==
    RSub(RMul(Rat(r.position[t - 1]),
              RDiv(Rat(r.Close[t] - r.Close[t - 1]), Rat(r.Close[t - 1]))),
         RMul(TransactionCost, Rat(Abs(r.position[t] - r.position[t - 1]))))

AgreeThrough(a, b, t) == \A u \in 1..t : a[u] = b[u]

\* C3: the strategy return of every row after the first is the lagged
\* position times the market return less the cost of the position change,
\* and two price series that agree up to a row give the same strategy return
\* at that row.
C3_NoLookAhead ==
    /\ \A k \in Instances :
           HasResults(k) =>
               \A t \in 2..Len(ResultsOf(k).Close) :
                   ResultsOf(k).strategy_return[t] = LaggedReturn(ResultsOf(k), t)
    /\ (HasResults(1) /\ HasResults(2) /\ strategy[1].args = strategy[2].args) =>
           \A t \in 2..Len(ResultsOf(1).Close) :
               AgreeThrough(ResultsOf(1).Close, ResultsOf(2).Close, t) =>
                   ResultsOf(1).strategy_return[t] = ResultsOf(2).strategy_return[t]

\* C3 witness: two runs whose prices differ only in the last row, where the
\* first run holds a position and trades, and whose returns differ in that
\* last row.
C3_Witness ==
    /\ HasResults(1) /\ HasResults(2)
    /\ LET a == ResultsOf(1)
           b == ResultsOf(2)
           n == Len(a.Close)
       IN  /\ n >= 3
           /\ AgreeThrough(a.Close, b.Close, n - 1)
           /\ a.Close[n] # b.Close[n]
           /\ a.position[n - 2] # 0
           /\ a.position[n - 1] # a.position[n - 2]
           /\ a.strategy_return[n] # b.strategy_return[n]

\* C11: when the price series has fewer rows than slow_period no trigger
\* fires and every position is 0.
C11_ShortSeriesAllFlat ==
    \A k \in Instances :
        (HasSignals(k) /\ Len(SignalsOf(k).Close) < strategy[k].args[1][2]) =>
            \A t \in 1..Len(SignalsOf(k).Close) :
                /\ SignalsOf(k).signal_trigger[t] = 0
                /\ SignalsOf(k).position[t] = 0

\* The same price at every step.
FlatSeries(xs) == \A t, u \in 1..Len(xs) : xs[t] = xs[u]

\* A run of the pipeline on a flat series with a valid parameter set.
FlatRun(k) ==
    /\ HasResults(k)
    /\ FlatSeries(ResultsOf(k).Close)
    /\ strategy[k].args[1][1] < strategy[k].args[1][2]

\* C18, as stated: on a flat price series with a valid parameter set there
\* is no trigger, the position is 0 and the transaction cost is 0 at every
\* step, and the strategy return is 0 wherever it is defined.
C18_FlatSeriesAllZero ==
    \A k \in Instances :
        FlatRun(k) =>
            \A t \in 1..Len(ResultsOf(k).Close) :
                /\ ResultsOf(k).signal_trigger[t] = 0
                /\ ResultsOf(k).position[t] = 0
                /\ ResultsOf(k).transaction_costs[t] = <<0, 1>>
                /\ ResultsOf(k).strategy_return[t] \in {NaN, <<0, 1>>}

\* C18, amended: on a flat price series with a valid parameter set there is
\* no trigger and the position is 0 at every step; the transaction cost and
\* the strategy return are undefined (NaN) at the first step and 0 at every
\* later step.
C18_FlatSeriesZeroWhereDefined ==
    \A k \in Instances :
        FlatRun(k) =>
            \A t \in 1..Len(ResultsOf(k).Close) :
                /\ ResultsOf(k).signal_trigger[t] = 0
                /\ ResultsOf(k).position[t] = 0
                /\ ResultsOf(k).transaction_costs[t] = IF t = 1 THEN NaN ELSE <<0, 1>>
                /\ ResultsOf(k).strategy_return[t] = IF t = 1 THEN NaN ELSE <<0, 1>>

\* A flat series of MaxLen steps went through the whole pipeline.
C18_Witness ==
    \E k \in Instances :
        /\ FlatRun(k)
        /\ Len(ResultsOf(k).Close) = MaxLen

\* C23: the position is a saturating counter of the triggers: at every step
\* after the first, position[i] = clip(position[i-1] + trigger[i], -1, +1);
\* so a bearish trigger at position +1 brings it to 0 or below and a bullish
\* trigger at position -1 brings it to 0 or above.
C23_PositionSaturatingCounter ==
    \A k \in Instances :
        HasSignals(k) =>
            \A i \in 2..Len(SignalsOf(k).position) :
                SignalsOf(k).position[i] =
                    Clip(SignalsOf(k).position[i - 1] + SignalsOf(k).signal_trigger[i], -1, 1)

----------------------------------------------------------------------------
(* Claims about the objectives                                             *)

FeasibleCandidates == {c \in Candidates : ~Infeasible(c)}

\* C2: for every candidate whose truncated periods are infeasible
\* (fast >= slow, or a period below 1) the objective returns the worst score
\* of the minimizer - one no run of the pipeline scores above - and does not
\* run the pipeline.
C2_InfeasibleScoresWorst ==
    (opt.by # "none" /\ Infeasible(opt.params)) =>
        /\ ~opt.ran
        /\ opt.by = "objective_function" =>
               \A c \in FeasibleCandidates, o \in PipelineOutcomes :
                   ScoreLe(objective_function(c, o).score, opt.score)
        /\ opt.by = "objective" =>
               \A c \in FeasibleCandidates, o \in ETFPipelineOutcomes :
                   ScoreLe(objective(c, o).score, opt.score)

\* C12: when scoring a feasible candidate raises inside objective_function,
\* no exception leaves the function and the score returned is +infinity, a
\* score no run of the pipeline exceeds.
C12_ScoringExceptionIsWorstScore ==
    (/\ opt.by = "objective_function"
     /\ ~Infeasible(opt.params)
     /\ opt.outcome[1] = "raise") =>
        /\ ~opt.raised
        /\ opt.score = PosInf
        /\ \A c \in FeasibleCandidates, o \in PipelineOutcomes :
               ScoreLe(objective_function(c, o).score, opt.score)

\* C12 witness: the pipeline was run for the periods (12, 26, 9) and raised.
C12_Witness ==
    /\ opt.by = "objective_function"
    /\ opt.params = <<<<12, 1>>, <<26, 1>>, <<9, 1>>>>
    /\ opt.ran
    /\ opt.outcome[1] = "raise"

----------------------------------------------------------------------------
(* Claims about backtest                                                   *)

\* A parameter set outside "every period at least 1 and fast < slow".
InvalidParams(p) == p[1] < 1 \/ p[2] < 1 \/ p[3] < 1 \/ p[1] >= p[2]

\* C14: a call of backtest with an invalid parameter set is rejected before
\* anything is computed: it leaves the object's signals and results as they
\* were and does not reach calculate_metrics.
C14_InvalidParamsRejected ==
    (run.called /\ InvalidParams(run.args))
        => /\ strategy[1].signals = run.before.signals
           /\ strategy[1].results = run.before.results
           /\ run.metrics = "not called"

\* C19: when fetch_data fails, because the provider raised or returned an
\* empty series, backtest returns None, leaves signals and results as they
\* were and does not call calculate_metrics; and fetch_data fails exactly in
\* those two cases.
C19_FetchFailureReturnsNone ==
    run.called =>
        /\ (run.fetch = "False")
              => /\ run.returned = "None"
                 /\ run.metrics = "not called"
                 /\ strategy[1].signals = run.before.signals
                 /\ strategy[1].results = run.before.results
        /\ (run.before.data = None)
              => ((run.fetch = "False")
                    <=> (run.provider = None \/ run.provider = Some(<< >>)))

\* The provider returned an empty series to an object that had never run:
\* backtest returned None and signals and results are still unset.
C19_Witness ==
    /\ run.called
    /\ run.provider = Some(<< >>)
    /\ run.before.data = None
    /\ run.returned = "None"
    /\ strategy[1].signals = None
    /\ strategy[1].results = None

----------------------------------------------------------------------------
(* Claims about calculate_metrics                                          *)

AllMissing(xs) == \A t \in 1..Len(xs) : IsNaN(xs[t])

AllEqual(xs) == \A t, u \in 1..Len(xs) : xs[t] = xs[u]

\* C13: on a frame without rows, or whose strategy returns are all missing,
\* calculate_metrics returns a result and raises nothing.
C13_MetricsNeverRaiseOnEmpty ==
    (metrics.called /\ AllMissing(metrics.returns.strategy_return)) =>
        metrics.result.raised = "none"

\* C17: calculate_metrics raises nothing for a zero denominator;
\* sharpe_ratio is 0 when the strategy returns have no positive standard
\* deviation (none, one, or all equal) and annual_return / volatility
\* otherwise; beta is 0 when there are no market returns or their variance
\* is zero or undefined, and cov(strategy, market) / var(market) otherwise.
C17_ZeroDenominatorsGiveZero ==
    metrics.called =>
        LET r == metrics.result
            strategy_returns == DropNa(metrics.returns.strategy_return)
            market_returns   == DropNa(metrics.returns.market_return)
        IN  /\ r.raised = "none"
            /\ r.sharpe_ratio = IF AllEqual(strategy_returns) THEN "0"
                                ELSE "annual_return / volatility"
            /\ IF AllEqual(market_returns) THEN r.beta = <<0, 1>>
               ELSE RMul(r.beta, Var(market_returns)) = Cov(strategy_returns, market_returns)

\* C17, for the calls that return: the same two guards.
C17_GuardsWhenMetricsReturn ==
    (metrics.called /\ metrics.result.raised = "none") =>
        LET r == metrics.result
            strategy_returns == DropNa(metrics.returns.strategy_return)
            market_returns   == DropNa(metrics.returns.market_return)
        IN  /\ r.sharpe_ratio = IF AllEqual(strategy_returns) THEN "0"
                                ELSE "annual_return / volatility"
            /\ IF AllEqual(market_returns) THEN r.beta = <<0, 1>>
               ELSE RMul(r.beta, Var(market_returns)) = Cov(strategy_returns, market_returns)

----------------------------------------------------------------------------
(* Claims about walk_forward_analysis                                      *)

Disjoint(a, b) == RowSet(a) \cap RowSet(b) = {}

\* C4: the test windows of successive blocks are consecutive and pairwise
\* disjoint, each holds exactly test_window rows, and the optimization
\* window of a block ends where its test window begins, so that no row of a
\* block's test window is in its optimization window.
C4_WindowsOrdered ==
    \A j \in 1..Len(wf.blocks) :
        LET b == wf.blocks[j]
        IN  /\ RowCount(b.test) = wf.test_window
            /\ b.opt.hi = b.test.lo
            /\ Disjoint(b.opt, b.test)
            /\ j > 1 => wf.blocks[j - 1].test.hi = b.test.lo
            /\ \A i \in 1..(j - 1) : Disjoint(wf.blocks[i].test, b.test)

\* C4 witness: a finished run of three blocks with a test window of two
\* rows and a non-empty optimization window.
C4_Witness ==
    /\ wf.pc = "returned"
    /\ Len(wf.blocks) = 3
    /\ wf.test_window = 2
    /\ wf.optimization_window >= 1

\* start indices k * test_window at which a whole block fits the series
FittingStarts ==
    {s \in 0..RowCount(wf.data[1]) :
        /\ s % wf.test_window = 0
        /\ s + wf.optimization_window + wf.test_window <= RowCount(wf.data[1])}

\* C5: a run that returns has evaluated a block for every start index
\* k * test_window with start + optimization_window + test_window <= length
\* of the series, and for no other.
C5_StopsOnlyWhenNoBlockFits ==
    wf.pc = "returned" =>
        {wf.blocks[j].start_idx : j \in 1..Len(wf.blocks)} = FittingStarts

\* C6: the optimizer of every block scores candidates on exactly the rows
\* of the block's optimization window
\* [start, start + optimization_window).
C6_OptimizerSeesWholeWindow ==
    \A j \in 1..Len(wf.blocks) :
        LET b == wf.blocks[j]
        IN  /\ b.scored = b.opt
            /\ b.opt = Rows(b.start_idx, b.start_idx + wf.optimization_window)

C16_ReportedParamsValid ==
    \A j \in 1..Len(wf.results_list) :
        LET p == wf.results_list[j].parameters
        IN  /\ p[1] >= 1 /\ p[2] >= 1 /\ p[3] >= 1
            /\ p[1] < p[2]

----------------------------------------------------------------------------
(* Claims about the multi-asset strategies                                 *)

Rebalanced == algo.rebalance # None

BreakerFired == RGt(algo.rebalance[1].drawdown, max_drawdown)

WithinMaxPositionSize(w) == RLe(RAbs(w), max_position_size)

\* C8: every target weight handed to ExecuteTrades and every position held
\* lies in [-max_position_size, +max_position_size].
C8_WeightsWithinMaxPositionSize ==
    /\ \A s \in Assets : WithinMaxPositionSize(algo.etfs[s].position)
    /\ Rebalanced =>
           \A s \in Assets : WithinMaxPositionSize(algo.rebalance[1].filtered[s])

\* The crossover conditions of GenerateSignal on the state before a
\* rebalance.
BullishTrigger(etf_data) ==
    /\ HasIndicators(etf_data)
    /\ RGt(etf_data.macd[1], etf_data.signal_line[1])
    /\ RLe(etf_data.last_signal, Zero)

BearishTrigger(etf_data) ==
    /\ HasIndicators(etf_data)
    /\ ~BullishTrigger(etf_data)
    /\ RLt(etf_data.macd[1], etf_data.signal_line[1])
    /\ RGe(etf_data.last_signal, Zero)

\* C9: in a rebalance of the enhanced strategy in which neither a filter
\* nor the circuit breaker changes an asset's signal, a trigger whose order
\* is filled leaves a position in the trigger direction, and without a
\* trigger the target weight is the position held before and the position
\* is unchanged.
C9_HoldKeepsPosition ==
    (Rebalanced /\ algo.variant = "enhanced" /\ ~BreakerFired) =>
        LET r == algo.rebalance[1]
        IN  \A s \in Assets :
                LET before == r.before[s]
                    after == algo.etfs[s]
                IN  /\ (BullishTrigger(before) /\ r.signals[s] = One /\ r.order[s] = "filled")
                           => RGt(after.position, Zero)
                    /\ (BearishTrigger(before) /\ r.signals[s] = <<-1, 1>> /\ r.order[s] = "filled")
                           => RLt(after.position, Zero)
                    /\ (/\ HasIndicators(before)
                        /\ ~BullishTrigger(before)
                        /\ ~BearishTrigger(before)
                        /\ r.signals[s] = before.position)
                           => /\ r.filtered[s] = before.position
                              /\ after.position = before.position

\* The minimum weight change of the variant that rebalanced.
MinimumChange == IF algo.variant = "enhanced" THEN <<1, 100>> ELSE <<2, 100>>

\* C20: in a rebalance of either variant an order is sent for an asset only
\* when |target weight - current weight| exceeds the variant's threshold
\* (0.01 enhanced, 0.02 simplified); at or below the threshold no order is
\* sent and the stored position is unchanged; the stored position changes
\* only when an order was sent and reported filled, and then it is the
\* target weight.
C20_TradeOnlyPastThreshold ==
    Rebalanced =>
        LET r == algo.rebalance[1]
        IN  \A s \in Assets :
                LET exceeds == RGt(RAbs(RSub(r.filtered[s], r.current_weight[s])),
                                   MinimumChange)
                    before  == r.before[s].position
                    after   == algo.etfs[s].position
                IN  /\ r.sent[s] => exceeds
                    /\ ~exceeds => after = before
                    /\ (r.sent[s] /\ r.order[s] = "filled") => after = r.filtered[s]
                    /\ ~(r.sent[s] /\ r.order[s] = "filled") => after = before

\* A rebalance of the simplified strategy whose weight change was exactly
\* the threshold: the asset held 2% and its target weight was 0.
C20_Witness ==
    /\ Rebalanced
    /\ algo.variant = "simplified"
    /\ \E s \in Assets :
           /\ algo.rebalance[1].filtered[s] = Zero
           /\ algo.rebalance[1].current_weight[s] = <<1, 50>>
           /\ algo.rebalance[1].order[s] = "filled"
           /\ ~algo.rebalance[1].sent[s]

\* C24: every step leaves the drawdown tracker consistent with the last
\* portfolio value read: the peak is at least that value and not lower than
\* before the step, drawdown = (peak - current) / peak lies in [0, 1), and
\* drawdown is 0 exactly when the value equals the peak.
C24_DrawdownTracker ==
    [][algo'.portfolio_value # None =>
         LET current == algo'.portfolio_value[1]
             peak    == algo'.peak_portfolio_value
         IN  /\ current > 0
             /\ peak >= current
             /\ peak >= algo.peak_portfolio_value
             /\ algo'.drawdown = Norm(peak - current, peak)
             /\ RGe(algo'.drawdown, Zero)
             /\ RLt(algo'.drawdown, One)
             /\ (algo'.drawdown = Zero) <=> (current = peak)]_vars

\* The portfolio rose to a new peak of 110 and then fell to 85.
C24_Witness ==
    /\ algo.portfolio_value = Some(85)
    /\ algo.peak_portfolio_value = 110
    /\ algo.drawdown = <<5, 22>>

\* The sign of a rational.
Sign(x) == IF RGt(x, Zero) THEN 1 ELSE IF RLt(x, Zero) THEN -1 ELSE 0

\* The filters of a call taken apart: the halving of a signal when enough
\* returns are held and the volatility is above the variant's limit, and the
\* zeroing of a signal by the trend test and, in the simplified strategy, the
\* RSI test.
Halved(c, x) ==
    IF /\ algo.etfs[c.asset].returns >= volatility_window
       /\ RGt(c.volatility, IF algo.variant = "enhanced" THEN <<3, 10>> ELSE <<7, 20>>)
    THEN RMul(x, <<1, 2>>) ELSE x

Zeroed(c, x) ==
    LET trend == (algo.variant = "enhanced") => (algo.etfs[c.asset].price_history >= 20)
        low   == RLt(c.price, RMul(c.mean, <<98, 100>>))
        high  == RGt(c.price, RMul(c.mean, <<102, 100>>))
        rsi   == algo.variant = "simplified"
    IN  IF trend /\ ((RGt(x, Zero) /\ low) \/ (RLt(x, Zero) /\ high)) THEN Zero
        ELSE IF rsi /\ ((RGt(x, Zero) /\ c.rsi > 70) \/ (RLt(x, Zero) /\ c.rsi < 30))
             THEN Zero
             ELSE x

\* C25: the value a confirmation filter returns is 0 or has the sign of the
\* signal it was given, it is 0, half or all of that signal, a zero signal
\* stays zero, and halving before zeroing gives the same value as zeroing
\* before halving.
C25_FiltersOnlyWeaken ==
    algo.filter_call # None =>
        LET c == algo.filter_call[1]
        IN  /\ Sign(c.returned) \in {0, Sign(c.signal)}
            /\ c.returned \in {Zero, RMul(c.signal, <<1, 2>>), c.signal}
            /\ c.signal = Zero => c.returned = Zero
            /\ c.returned = Zeroed(c, Halved(c, c.signal))
            /\ c.returned = Halved(c, Zeroed(c, c.signal))

\* A long signal was halved by the volatility filter of the enhanced
\* strategy and passed the trend test.
C25_Witness ==
    /\ algo.filter_call # None
    /\ algo.variant = "enhanced"
    /\ algo.filter_call[1].signal = One
    /\ algo.filter_call[1].returned = <<1, 2>>

\* The entries a rolling window holds after its asset received bars first..
\* last: the most recent WindowCapacity of them, oldest first.
MostRecent(window, first, last) ==
    /\ Len(window) = Min(Max(last - first + 1, 0), WindowCapacity)
    /\ \A i \in 1..Len(window) : window[i] = last - Len(window) + i

WindowsInOrder ==
    \A s \in Assets :
        LET e == algo.etfs[s]
        IN  /\ Len(e.price_entries) <= 252
            /\ Len(e.return_entries) <= 252
            /\ MostRecent(e.price_entries, 1, e.bars)
            /\ MostRecent(e.return_entries, 2, e.bars)
            /\ Len(e.return_entries) <= Len(e.price_entries)
            /\ e.price_history = Len(e.price_entries)
            /\ e.returns = Len(e.return_entries)

\* C22: after every step each asset's price window and return window hold
\* at most 252 entries, the most recent ones in arrival order, the return
\* window never holds more entries than the price window, and a step that
\* changes a window is an OnData tick past the warm-up: it reads the
\* portfolio value and is not a rebalance.
C22_RollingWindows ==
    [][/\ WindowsInOrder'
       /\ (\E s \in Assets :
              \/ algo'.etfs[s].price_entries # algo.etfs[s].price_entries
              \/ algo'.etfs[s].return_entries # algo.etfs[s].return_entries)
            => /\ ~algo.warming_up
               /\ algo'.rebalances = algo.rebalances
               /\ algo'.rebalance = None
               /\ algo'.portfolio_value # None]_vars

\* Two bars past the capacity: both windows are full and the two oldest
\* prices are gone.
C22_Witness ==
    \E s \in Assets :
        /\ algo.etfs[s].bars = 254
        /\ Len(algo.etfs[s].price_entries) = 252
        /\ Len(algo.etfs[s].return_entries) = 252
        /\ algo.etfs[s].price_entries[1] = 3

\* C21: a step changes an asset's optimal_params or last_optimization only
\* as a call of OptimizeParameters past the warm-up in which the asset held at
\* least 63 prices, at least 21 days had passed since its last_optimization
\* and the optimizer returned a parameter set: that set becomes optimal_params
\* and last_optimization becomes the current time.  A call of
\* OptimizeParameters leaves position, last_signal and both rolling windows
\* of every asset as they were, and leaves optimal_params and
\* last_optimization as they were when the optimizer returned nothing.
C21_ReoptimizationCadence ==
    [][\A s \in Assets :
          LET before  == algo.etfs[s]
              after   == algo'.etfs[s]
              changed == \/ after.optimal_params # before.optimal_params
                         \/ after.last_optimization # before.last_optimization
              call    == algo'.optimize # algo.optimize
          IN  /\ changed =>
                    /\ ~algo.warming_up
                    /\ before.price_history >= 63
                    /\ algo.time - before.last_optimization >= 21
                    /\ algo'.optimize[s] # None
                    /\ algo'.optimize[s][1] # None
                    /\ after.optimal_params = algo'.optimize[s][1][1]
                    /\ after.last_optimization = algo.time
                    /\ after.position = before.position
                    /\ after.last_signal = before.last_signal
                    /\ after.price_entries = before.price_entries
                    /\ after.return_entries = before.return_entries
              /\ call =>
                    /\ after.position = before.position
                    /\ after.last_signal = before.last_signal
                    /\ after.price_entries = before.price_entries
                    /\ after.return_entries = before.return_entries
                    /\ (algo'.optimize[s] = None \/ algo'.optimize[s] = Some(None))
                          => ~changed]_vars

\* An asset holding a position was re-optimized exactly 21 days after its
\* last optimization.
C21_Witness ==
    \E s \in Assets :
        /\ algo.etfs[s].optimal_params = <<8, 20, 6>>
        /\ algo.etfs[s].last_optimization = 21
        /\ algo.etfs[s].price_history >= 63
        /\ algo.etfs[s].position # Zero

====
